---- MODULE Spec2Model ----
(***************************************************************************)
(* A model of reducer-redux.                                               *)
(*                                                                         *)
(* The Matcher library (match, first, always, withDefault, plainAction,    *)
(* redux) and the tree dispatcher (findReducer, reducer, combineReducers,  *)
(* compose) are pure function composition, so the state of the model is    *)
(* the last operation performed, its inputs, its result and the calls it   *)
(* made to the caller's functions, plus the registry of one reducer()      *)
(* instance and the table of the Matchers constructed so far.              *)
(*                                                                         *)
(* JavaScript values are records tagged by the field k.  A caller's        *)
(* function is a record with a declared parameter count (its .length); a   *)
(* transform returns the uninterpreted term "res(fn, args)", so two        *)
(* results are equal exactly when the same function was applied to the     *)
(* same arguments.                                                         *)
(***************************************************************************)
EXTENDS Integers, Sequences, FiniteSets, TLC

VARIABLES
  op,            \* the operation the caller performed last, "idle" if none
  inp,           \* its inputs
  out,           \* the value it returned or threw
  log,           \* the calls it made to the caller's functions, in order
  reducers,      \* the registry of the reducer() instance
  defaultState,  \* the defaultState of the reducer() instance
  privates,      \* the Matchers constructed so far: { condition, reducer }
  heap           \* the objects of two reducer() instances and of the caller

vars == <<op, inp, out, log, reducers, defaultState, privates, heap>>

registry == <<reducers, defaultState>>

----------------------------------------------------------------------------
(* Bounds *)

MaxArgs == 3
MaxArity == 3
MaxFirst == 2

----------------------------------------------------------------------------
(* JavaScript values *)

Undefined == [k |-> "undef"]
Atom(s) == [k |-> "atom", a |-> s]
Bool(b) == [k |-> "bool", b |-> b]
Obj(f) == [k |-> "obj", o |-> f]
Throw(msg) == [k |-> "throw", a |-> msg]
Null == [k |-> "null"]
\* an object that is not a plain object: an array
ArrayVal == [k |-> "array"]

EmptyObj == Obj([x \in {} |-> Undefined])

IsUndefined(v) == v.k = "undef"
IsThrow(v) == v.k = "throw"
\* a property read on v throws
IsNil(v) == v.k \in {"undef", "null"}

\* JavaScript truthiness of a value
Truthy(v) ==
  CASE v.k = "undef" -> FALSE
    [] v.k = "null" -> FALSE
    [] v.k = "bool" -> v.b
    [] v.k = "atom" -> v.a # ""
    [] OTHER -> TRUE

\* obj[key]; a property read on a non-object value yields undefined
Get(v, key) ==
  IF v.k = "obj" /\ key \in DOMAIN v.o THEN v.o[key] ELSE Undefined

Keys(v) == IF v.k = "obj" THEN DOMAIN v.o ELSE {}

\* A function written by the caller.  ar is its declared parameter count;
\* sem says what it computes:
\*   "T"/"F"  constant true / false
\*   "a0"     true iff its first argument is the atom "s1"
\*   "a1"     true iff its second argument is defined
\*   "res"    a transform: returns the term res(fn, args)
UFn(id, ar, sem) == [k |-> "fn", id |-> id, ar |-> ar, sem |-> sem]

Res(fn, args) == [k |-> "res", of |-> fn, args |-> args]

\* ramda's R.T, R.F and R.identity
RT == [k |-> "R.T"]
RF == [k |-> "R.F"]
RIdentity == [k |-> "R.identity"]

\* A curried function that has received fewer arguments than its arity
Partial(f, args) == [k |-> "partial", f |-> f, args |-> args]

\* One recorded call of a caller's function
CallRec(fn, args) == [fn |-> fn.id, args |-> args]

\* The outcome of a call: the value returned (or thrown) and the calls made
Ret(v, l) == [v |-> v, log |-> l]

Max(a, b) == IF a >= b THEN a ELSE b

----------------------------------------------------------------------------
(* Matcher values *)

\* The function R.ifElse(condition, reducer, R.identity) together with its
\* entry { condition, reducer } in the privates table
Matcher(condition, reducer) ==
  [k |-> "Matcher", condition |-> condition, reducer |-> reducer]

IsMatcher(v) == v.k = "Matcher"

\* util.isFunction
IsFunction(v) ==
  v.k \in {"fn", "R.T", "R.F", "R.identity", "Matcher", "firstReducer",
           "actionCondition", "withDefault", "partial", "where"}

isFunctionOrMatcher(v) == IsFunction(v) \/ IsMatcher(v)

\* reduce.with = childReducer => Matcher(condition, childReducer)
With(m, childReducer) == Matcher(m.condition, childReducer)

\* A match that takes every condition the action helpers take
MatchAnyCondition(condition) ==
  IF IsFunction(condition) \/ condition.k \in {"obj", "array"}
  THEN Matcher(condition, RIdentity)
  ELSE Throw("argument must be a function")

\* A match that takes the values that are not null or undefined
MatchNonNil(condition) ==
  IF ~IsNil(condition) /\ condition.k # "atom"
  THEN Matcher(condition, RIdentity)
  ELSE Throw("argument must be a function")

\* match(condition): Matcher(condition) with the default reducer R.identity
Match(condition) ==
  IF IsFunction(condition)
  THEN Matcher(condition, RIdentity)
  ELSE Throw("argument must be a function")

\* The reducer that match.first gives its Matcher:
\* (state, ...rest) => find the first Matcher whose condition holds
FirstReducer(ms) == [k |-> "firstReducer", reducers |-> ms]

\* R.pipe(R.nthArg(1), getConditionPredicate(condition))
ActionCondition(pred, condition) ==
  [k |-> "actionCondition", pred |-> pred, condition |-> condition]

\* R.ifElse(state => isUndefined(state), () => defaultValue, matcher)
WithDefault(defaultValue, matcher) ==
  [k |-> "withDefault", defaultValue |-> defaultValue, matcher |-> matcher]

\* util.isPlainObject
isPlainObject(v) == v.k = "obj"

\* match.shape(condition) = R.when(util.isPlainObject, R.where)(condition):
\* R.where(condition) waiting for the object to test when the condition is
\* a plain object, and the condition itself otherwise
Shape(condition) ==
  IF isPlainObject(condition) THEN [k |-> "where", spec |-> condition]
  ELSE condition

\* privates.set(reduce, { condition, reducer }) of a new Matcher: the table
\* with the new Matcher, and the new Matcher's place in it
NewMatcher(table, condition, reducer) ==
  [privates |-> Append(table, Matcher(condition, reducer)),
   matcher |-> Len(table) + 1]

\* A with() that changes the reducer of the Matcher it is called on
MatcherWithInPlace(table, m, childReducer) ==
  [privates |-> [table EXCEPT ![m] = With(table[m], childReducer)],
   matcher |-> m]

\* table[m].with(childReducer): Matcher(condition, childReducer) is a new
\* function with a new entry in privates
MatcherWith(table, m, childReducer) ==
  NewMatcher(table, table[m].condition, childReducer)

----------------------------------------------------------------------------
(* Calling a function value *)

\* The order in which the keys of a condition object are visited
KeyOrder == <<"a", "b", "c">>

RECURSIVE Arity(_), Call(_, _), FindIndex(_, _, _), Where(_, _, _)

\* f.length.  R.ifElse curries its result to the largest length of its three
\* arguments; R.identity has length 1; R.T and R.F have length 0; a rest
\* parameter does not count; R.pipe takes the length of its first function
\* and R.nthArg(1) has length 2.
Arity(f) ==
  CASE f.k = "fn" -> f.ar
    [] f.k = "R.identity" -> 1
    [] f.k = "Matcher" ->
         Max(Max(Arity(f.condition), Arity(f.reducer)), Arity(RIdentity))
    [] f.k = "firstReducer" -> 1
    [] f.k = "actionCondition" -> 2
    [] f.k = "withDefault" -> Max(Max(1, 0), Arity(f.matcher))
    [] f.k = "partial" -> Max(Arity(f.f) - Len(f.args), 0)
    [] f.k = "where" -> 1
    [] OTHER -> 0

\* A call of a caller's function: it is recorded, and answers by its sem
CallUFn(f, args) ==
  LET l == <<CallRec(f, args)>> IN
  CASE f.sem = "T" -> Ret(Bool(TRUE), l)
    [] f.sem = "F" -> Ret(Bool(FALSE), l)
    [] f.sem = "a0" -> Ret(Bool(Len(args) >= 1 /\ args[1] = Atom("s1")), l)
    [] f.sem = "a1" -> Ret(Bool(Len(args) >= 2 /\ ~IsUndefined(args[2])), l)
    [] OTHER -> Ret(Res(f, args), l)

\* R.ifElse(condition, onTrue, onFalse) called with args, self being the
\* curried function: with fewer arguments than its arity it returns a
\* function waiting for the rest and calls nothing
IfElse(self, condition, onTrue, onFalse, args) ==
  IF Len(args) < Arity(self)
  THEN Ret(Partial(self, args), <<>>)
  ELSE LET c == Call(condition, args) IN
       IF IsThrow(c.v) THEN c
       ELSE LET r == Call(IF Truthy(c.v) THEN onTrue ELSE onFalse, args)
            IN Ret(r.v, c.log \o r.log)

\* const reduce = R.ifElse(condition, reducer, R.identity)
MatcherCall(m, args) == IfElse(m, m.condition, m.reducer, RIdentity, args)

\* R.find over the Matchers' conditions, from index i on: the index of the
\* first Matcher whose condition holds for args (0 if none) and the calls
FindIndex(ms, i, args) ==
  IF i > Len(ms) THEN [i |-> 0, v |-> Undefined, log |-> <<>>]
  ELSE LET c == Call(ms[i].condition, args) IN
       IF IsThrow(c.v) THEN [i |-> 0, v |-> c.v, log |-> c.log]
       ELSE IF Truthy(c.v) THEN [i |-> i, v |-> Undefined, log |-> c.log]
       ELSE LET n == FindIndex(ms, i + 1, args)
            IN [i |-> n.i, v |-> n.v, log |-> c.log \o n.log]

\* (state, ...rest) => R.pipe(R.find(...), R.ifElse(R.identity,
\*   util.callWith(state, ...rest), R.always(state)))(reducers)
\* The Matcher that was found is itself called with the arguments.
FirstReducerCall(f, args) ==
  LET found == FindIndex(f.reducers, 1, args) IN
  IF IsThrow(found.v) THEN Ret(found.v, found.log)
  ELSE IF found.i = 0
  THEN Ret(IF Len(args) >= 1 THEN args[1] ELSE Undefined, found.log)
  ELSE LET r == Call(f.reducers[found.i], args)
       IN Ret(r.v, found.log \o r.log)

\* match.withDefault(defaultValue)(matcher) called with args
WithDefaultCall(f, args) ==
  IF Len(args) < Arity(f) THEN Ret(Partial(f, args), <<>>)
  ELSE IF IsUndefined(args[1]) THEN Ret(f.defaultValue, <<>>)
  ELSE Call(f.matcher, args)

\* R.where(spec)(testObj), visiting the keys from index i of KeyOrder on:
\* every leaf predicate of spec is called with the corresponding field
Where(spec, testObj, i) ==
  IF i > Len(KeyOrder) THEN Ret(Bool(TRUE), <<>>)
  ELSE IF KeyOrder[i] \notin Keys(spec) THEN Where(spec, testObj, i + 1)
  ELSE IF IsNil(testObj) \/ ~IsFunction(spec.o[KeyOrder[i]])
  THEN Ret(Throw("TypeError"), <<>>)
  ELSE LET c == Call(spec.o[KeyOrder[i]], <<Get(testObj, KeyOrder[i])>>) IN
       IF IsThrow(c.v) \/ ~Truthy(c.v)
       THEN Ret(IF IsThrow(c.v) THEN c.v ELSE Bool(FALSE), c.log)
       ELSE LET n == Where(spec, testObj, i + 1)
            IN Ret(n.v, c.log \o n.log)

RECURSIVE PartialEq(_, _)
\* every key of spec has, in testObj, an equal value or an object that
\* matches the nested spec in the same way
PartialEq(spec, testObj) ==
  \A key \in Keys(spec) :
    IF isPlainObject(spec.o[key])
    THEN isPlainObject(Get(testObj, key))
           /\ PartialEq(spec.o[key], Get(testObj, key))
    ELSE Get(testObj, key) = spec.o[key]

\* A whereEq that ignores extra fields inside nested objects too
WhereEqPartial(spec, testObj) ==
  IF Keys(spec) # {} /\ IsNil(testObj)
  THEN Ret(Throw("TypeError"), <<>>)
  ELSE Ret(Bool(PartialEq(spec, testObj)), <<>>)

\* R.whereEq(spec)(testObj): every key of spec has an equal value in testObj
WhereEq(spec, testObj) ==
  IF Keys(spec) # {} /\ IsNil(testObj)
  THEN Ret(Throw("TypeError"), <<>>)
  ELSE Ret(Bool(\A key \in Keys(spec) : Get(testObj, key) = spec.o[key]), <<>>)

\* match.shape = R.when(util.isPlainObject, R.where) and
\* match.object = R.when(util.isPlainObject, R.whereEq), applied to x
ConditionPredicate(pred, condition, x) ==
  IF ~isPlainObject(condition) THEN Call(condition, <<x>>)
  ELSE IF pred = "shape" THEN Where(condition, x, 1)
  ELSE WhereEq(condition, x)

\* An action condition that hands the predicate the state
ActionConditionCallState(f, args) ==
  ConditionPredicate(f.pred, f.condition,
                     IF Len(args) >= 1 THEN args[1] ELSE Partial(f, args))

\* R.pipe(R.nthArg(1), getConditionPredicate(condition)) called with args;
\* R.nthArg(1) is curried, so with fewer than two arguments the predicate
\* is handed a function instead of the action
ActionConditionCall(f, args) ==
  ConditionPredicate(f.pred, f.condition,
                     IF Len(args) >= 2 THEN args[2] ELSE Partial(f, args))

Call(f, args) ==
  CASE f.k = "fn" -> CallUFn(f, args)
    [] f.k = "R.T" -> Ret(Bool(TRUE), <<>>)
    [] f.k = "R.F" -> Ret(Bool(FALSE), <<>>)
    [] f.k = "R.identity" ->
         Ret(IF Len(args) >= 1 THEN args[1] ELSE Partial(f, args), <<>>)
    [] f.k = "Matcher" -> MatcherCall(f, args)
    [] f.k = "firstReducer" -> FirstReducerCall(f, args)
    [] f.k = "withDefault" -> WithDefaultCall(f, args)
    [] f.k = "actionCondition" -> ActionConditionCall(f, args)
    [] f.k = "partial" -> Call(f.f, f.args \o args)
    [] f.k = "where" ->
         IF Len(args) = 0 THEN Ret(f, <<>>) ELSE Where(f.spec, args[1], 1)
    [] OTHER -> Ret(Throw("TypeError"), <<>>)

RECURSIVE composeFrom(_, _, _, _)

\* _.reduce(reducers, (currentState, currentReducer) =>
\*   currentReducer.apply(null, [currentState, ...topLevelArguments.slice(1)]),
\*   state), from the reducer at index i on
composeFrom(rs, i, currentState, topLevelArguments) ==
  IF i > Len(rs) THEN Ret(currentState, <<>>)
  ELSE LET rest == IF Len(topLevelArguments) = 0 THEN <<>>
                   ELSE Tail(topLevelArguments)
           r == Call(rs[i], <<currentState>> \o rest)
       IN IF IsThrow(r.v) THEN r
          ELSE LET n == composeFrom(rs, i + 1, r.v, topLevelArguments)
               IN Ret(n.v, r.log \o n.log)

\* A compose that applies the reducers from the last to the first
composeRight(rs, topLevelArguments) ==
  composeFrom([i \in 1..Len(rs) |-> rs[Len(rs) + 1 - i]], 1,
              IF Len(topLevelArguments) = 0 THEN Undefined
              ELSE topLevelArguments[1],
              topLevelArguments)

\* compose(...reducers)(state, action, globalState, ...)
compose(rs, topLevelArguments) ==
  composeFrom(rs, 1,
              IF Len(topLevelArguments) = 0 THEN Undefined
              ELSE topLevelArguments[1],
              topLevelArguments)

----------------------------------------------------------------------------
(* The library's exported combinators *)

\* PRECONDITIONS.isMatcherCondition: a function or an Object (R.is(Object)
\* holds of every object, plain or not)
isMatcherCondition(v) == IsFunction(v) \/ v.k \in {"obj", "array"}

AllMatchers(rs) == \A i \in 1..Len(rs) : IsMatcher(rs[i])

\* A first that validates its Matchers when it is invoked
FirstUnchecked(rs) ==
  IF Len(rs) = 0 THEN Throw("must pass at least one argument")
  ELSE Matcher(RT, FirstReducer(rs))

\* match.first(...reducers)
\* A first whose Matcher tests the condition of its first member
FirstWithMemberCondition(rs) ==
  IF Len(rs) = 0 THEN Throw("must pass at least one argument")
  ELSE IF ~AllMatchers(rs) THEN Throw("arguments must be Matchers")
  ELSE Matcher(rs[1].condition, FirstReducer(rs))

First(rs) ==
  IF Len(rs) = 0 THEN Throw("must pass at least one argument")
  ELSE IF ~AllMatchers(rs) THEN Throw("arguments must be Matchers")
  ELSE Matcher(RT, FirstReducer(rs))

\* match.always(reducer)
Always(reducer) ==
  IF isFunctionOrMatcher(reducer) THEN Matcher(RT, reducer)
  ELSE Throw("must be a function or Matcher")

\* getActionCondition(getConditionPredicate)(condition)
GetActionCondition(pred, condition) ==
  IF isMatcherCondition(condition) THEN ActionCondition(pred, condition)
  ELSE Throw("condition must be an object or function")

\* match.plainAction = R.pipe(match.plainActionCondition, match)
PlainAction(condition) ==
  LET c == GetActionCondition("object", condition)
  IN IF IsThrow(c) THEN c ELSE Match(c)

\* convertToMatcher
ConvertToMatcher(r) ==
  IF ~isFunctionOrMatcher(r) THEN Throw("must be a function or Matcher")
  ELSE IF IsMatcher(r) THEN r ELSE Always(r)

\* getMatcherFromReducers(...reducers)
GetMatcherFromReducers(rs) ==
  IF \E i \in 1..Len(rs) : ~isFunctionOrMatcher(rs[i])
  THEN Throw("arguments must be functions or Matchers")
  ELSE First([i \in 1..Len(rs) |-> ConvertToMatcher(rs[i])])

\* match.redux(condition): the Matcher of actionCondition(condition), copied
\* by ofMatcher
Redux(condition) ==
  LET c == GetActionCondition("shape", condition)
  IN IF IsThrow(c) THEN c ELSE Match(c)

\* match.redux(condition).with(...reducers):
\* R.pipe(getMatcherFromReducers, matcher.with)
ReduxWith(m, rs) ==
  LET f == GetMatcherFromReducers(rs)
  IN IF IsThrow(f) THEN f ELSE With(m, f)

----------------------------------------------------------------------------
(* The tree dispatcher *)

\* the property name under which an action value is looked up
KeyOf(v) == IF v.k = "atom" THEN v.a ELSE "undefined"

AmbiguousDispatch == Throw("More than one reducer matches this action.")

\* A dispatcher that looks one level deep only
MatchesCurrentLevelLeavesOnly(reducerTree, action) ==
  {key \in Keys(reducerTree) :
     /\ ~IsUndefined(Get(action, key))
     /\ IsFunction(Get(reducerTree.o[key], KeyOf(Get(action, key))))}

\* The keys of reducerTree that the action has and whose entry for the
\* action's value exists
MatchesCurrentLevel(reducerTree, action) ==
  {key \in Keys(reducerTree) :
     /\ ~IsUndefined(Get(action, key))
     /\ ~IsUndefined(Get(reducerTree.o[key], KeyOf(Get(action, key))))}

RECURSIVE findReducer(_, _)

\* A dispatcher that settles an ambiguous action on one of the matches
findReducerFirstMatch(reducerTree, action) ==
  IF IsFunction(reducerTree) THEN reducerTree
  ELSE LET matches == MatchesCurrentLevel(reducerTree, action)
           rec(key) ==
             findReducer(Get(reducerTree.o[key], KeyOf(Get(action, key))),
                         action)
           recursiveMatches == {key \in matches : Truthy(rec(key))}
       IN IF Cardinality(recursiveMatches) = 0 THEN Undefined
          ELSE rec(CHOOSE key \in recursiveMatches : TRUE)

findReducer(reducerTree, action) ==
  IF IsFunction(reducerTree) THEN reducerTree
  ELSE LET matches == MatchesCurrentLevel(reducerTree, action)
           rec(key) ==
             findReducer(Get(reducerTree.o[key], KeyOf(Get(action, key))),
                         action)
           recursiveMatches == {key \in matches : Truthy(rec(key))}
       IN IF \E key \in matches : IsThrow(rec(key)) THEN AmbiguousDispatch
          ELSE IF Cardinality(recursiveMatches) > 1 THEN AmbiguousDispatch
          ELSE IF Cardinality(recursiveMatches) = 0 THEN Undefined
          ELSE rec(CHOOSE key \in recursiveMatches : TRUE)

\* A reducer that calls actionReducer(state, action) and drops the rest
innerReducerNoExtra(registered, default, state, action, args) ==
  LET s == IF IsUndefined(state) THEN default ELSE state
      actionReducer == findReducer(registered, action)
  IN IF IsThrow(actionReducer) THEN Ret(actionReducer, <<>>)
     ELSE IF IsUndefined(actionReducer) THEN Ret(s, <<>>)
     ELSE Call(actionReducer, <<s, action>>)

\* A reducer without the default parameter value
innerReducerNoDefault(registered, default, state, action, args) ==
  LET actionReducer == findReducer(registered, action)
  IN IF IsThrow(actionReducer) THEN Ret(actionReducer, <<>>)
     ELSE IF IsUndefined(actionReducer) THEN Ret(state, <<>>)
     ELSE Call(actionReducer, <<state, action>> \o args)

\* innerReducer(state = defaultState, action, ...args)
innerReducer(registered, default, state, action, args) ==
  LET s == IF IsUndefined(state) THEN default ELSE state
      actionReducer == findReducer(registered, action)
  IN IF IsThrow(actionReducer) THEN Ret(actionReducer, <<>>)
     ELSE IF IsUndefined(actionReducer) THEN Ret(s, <<>>)
     ELSE Call(actionReducer, <<s, action>> \o args)

RECURSIVE merge(_, _)

\* Object.assign(object, source): the top-level keys of the source replace
\* those of the object
mergeShallow(object, source) ==
  Obj([key \in Keys(object) \cup Keys(source) |->
        IF key \in Keys(source) THEN source.o[key] ELSE object.o[key]])

\* A merge that goes one level down and assigns below it
mergeOneLevel(object, source) ==
  Obj([key \in Keys(object) \cup Keys(source) |->
        IF key \notin Keys(source) THEN object.o[key]
        ELSE IF isPlainObject(source.o[key])
        THEN mergeShallow(IF isPlainObject(Get(object, key))
                          THEN object.o[key] ELSE EmptyObj,
                          source.o[key])
        ELSE source.o[key]])

\* _.merge(object, source): plain objects are merged key by key into the
\* object at the same key (into a new object when there is none or, as
\* lodash 4.17.21 does, when a function is there); a function of the source
\* is assigned
merge(object, source) ==
  Obj([key \in Keys(object) \cup Keys(source) |->
        IF key \notin Keys(source) THEN object.o[key]
        ELSE IF isPlainObject(source.o[key])
        THEN merge(IF isPlainObject(Get(object, key))
                   THEN object.o[key] ELSE EmptyObj,
                   source.o[key])
        ELSE source.o[key]])

\* A call whose search removes from the tree the keys that do not match
reducerCallPruning(registered, default, state, action, args) ==
  [reducers |-> Obj([key \in MatchesCurrentLevel(registered, action) |->
                       registered.o[key]]),
   ret |-> innerReducer(registered, default, state, action, args)]

\* R(state, action, ...args) on the registry of R: the registry after the
\* call, which findReducer and innerReducer only read, and the outcome
reducerCall(registered, default, state, action, args) ==
  [reducers |-> registered,
   ret |-> innerReducer(registered, default, state, action, args)]

\* innerReducer.add(reducerTree = {})
add(registered, reducerTree) ==
  merge(registered, IF IsUndefined(reducerTree) THEN EmptyObj ELSE reducerTree)

\* the calls combineReducers makes for the keys from index i of order on
RECURSIVE CombineLog(_, _, _, _, _)
CombineLog(mapping, state, action, order, i) ==
  IF i > Len(order) THEN <<>>
  ELSE IF order[i] \notin Keys(mapping)
  THEN CombineLog(mapping, state, action, order, i + 1)
  ELSE Call(mapping.o[order[i]],
            <<IF Truthy(state) THEN Get(state, order[i]) ELSE state,
              action, state>>).log
         \o CombineLog(mapping, state, action, order, i + 1)

\* redux's combineReducers: each reducer is given its slice and the action
combineReducersSlice(mapping, state, action, order) ==
  [v |-> Obj([key \in Keys(mapping) |->
               Call(mapping.o[key],
                    <<IF Truthy(state) THEN Get(state, key) ELSE state,
                      action,
                      IF Truthy(state) THEN Get(state, key) ELSE state>>).v]),
   log |-> CombineLog(mapping, state, action, order, 1),
   state |-> state]

\* A combineReducers that copies the state and overwrites the mapping's keys
combineReducersKeepState(mapping, state, action, order) ==
  [v |-> Obj([key \in Keys(mapping) \cup Keys(state) |->
               IF key \in Keys(mapping)
               THEN Call(mapping.o[key],
                         <<IF Truthy(state) THEN Get(state, key) ELSE state,
                           action, state>>).v
               ELSE state.o[key]]),
   log |-> CombineLog(mapping, state, action, order, 1),
   state |-> state]

RECURSIVE CombineInPlace(_, _, _, _, _)
\* the keys from index i of order on, each result written into the state
\* before the next reducer is called
CombineInPlace(mapping, state, action, order, i) ==
  IF i > Len(order) THEN [state |-> state, log |-> <<>>]
  ELSE IF order[i] \notin Keys(mapping)
  THEN CombineInPlace(mapping, state, action, order, i + 1)
  ELSE LET r == Call(mapping.o[order[i]],
                     <<Get(state, order[i]), action, state>>)
           next == Obj([key \in Keys(state) \cup {order[i]} |->
                          IF key = order[i] THEN r.v ELSE state.o[key]])
           n == CombineInPlace(mapping, next, action, order, i + 1)
       IN [state |-> n.state, log |-> r.log \o n.log]

\* A combineReducers that writes each result into the state object
combineReducersInPlace(mapping, state, action, order) ==
  LET r == CombineInPlace(mapping,
                          IF isPlainObject(state) THEN state ELSE EmptyObj,
                          action, order, 1)
  IN [v |-> Obj([key \in Keys(mapping) |-> r.state.o[key]]),
      log |-> r.log,
      state |-> IF isPlainObject(state) THEN r.state ELSE state]

\* combineReducers(reducers)(state, action): _.mapValues over the mapping,
\* whose keys are visited in the given order; the value returned, the calls
\* made and the state object after the call
combineReducers(mapping, state, action, order) ==
  [v |-> Obj([key \in Keys(mapping) |->
               Call(mapping.o[key],
                    <<IF Truthy(state) THEN Get(state, key) ELSE state,
                      action, state>>).v]),
   log |-> CombineLog(mapping, state, action, order, 1),
   state |-> state]

----------------------------------------------------------------------------
(* Inputs *)

Vals == {Undefined, Atom("s0"), Atom("s1")}

SeqsUpTo(S, n) == UNION {[1..m -> S] : m \in 0..n}

\* The argument lists of a call: the state and up to MaxArgs - 1 more
ArgLists == SeqsUpTo(Vals, MaxArgs) \ {<<>>}

Arities == 0..MaxArity

DefaultValues == {Atom("d")}

CondSems == {"T", "F", "a0", "a1"}

CondIds == <<"c1", "c2", "c3">>
TransformIds == <<"t1", "t2", "t3">>

\* The conditions and transforms a caller may write for position i
CondsAt(i) == {UFn(CondIds[i], ar, sem) : ar \in Arities, sem \in CondSems}
TransformsAt(i) == {UFn(TransformIds[i], ar, "res") : ar \in Arities}

\* c(...args) is true
Holds(c, args) == Truthy(CallUFn(c, args).v)

\* args[0]
FirstArg(args) == IF Len(args) >= 1 THEN args[1] ELSE Undefined

\* the caller's function fn was called during the operation
Called(fn) == \E i \in 1..Len(log) : log[i].fn = fn.id

----------------------------------------------------------------------------
(* Operations of the Matcher library *)

\* The caller is between two operations
Idle ==
  /\ op = "idle"
  /\ inp = [args |-> <<>>]
  /\ out = Undefined
  /\ log = <<>>

Init ==
  /\ Idle
  /\ reducers = EmptyObj
  /\ defaultState \in DefaultValues
  /\ privates = <<>>
  /\ heap = [objects |-> <<EmptyObj, EmptyObj>>, trees |-> <<>>]

\* The caller has looked at the result of the operation and goes on
Done ==
  /\ op # "idle"
  /\ op' = "idle"
  /\ inp' = [args |-> <<>>]
  /\ out' = Undefined
  /\ log' = <<>>
  /\ UNCHANGED <<registry, privates, heap>>

\* match(c).with(t)(...args)
CallMatch ==
  /\ op = "idle"
  /\ \E c \in CondsAt(1), t \in TransformsAt(1), args \in ArgLists :
       LET r == Call(With(Match(c), t), args) IN
       /\ op' = "match"
       /\ inp' = [condition |-> c, reducer |-> t, args |-> args]
       /\ out' = r.v
       /\ log' = r.log
       /\ UNCHANGED <<registry, privates, heap>>

\* The Matchers a caller may pass to match.first at position i
FirstSems == {"T", "F", "a0"}
FirstArities == {0, MaxArity}

MatchersAt(i) ==
  {With(Match(UFn(CondIds[i], car, sem)), UFn(TransformIds[i], tar, "res")) :
     car \in FirstArities, tar \in FirstArities, sem \in FirstSems}

MatcherLists ==
  {ms \in SeqsUpTo(UNION {MatchersAt(i) : i \in 1..MaxFirst}, MaxFirst) :
     Len(ms) >= 1 /\ \A i \in 1..Len(ms) : ms[i] \in MatchersAt(i)}

\* first(M1, ..., Mn)(...args)
CallFirst ==
  /\ op = "idle"
  /\ \E ms \in MatcherLists, args \in ArgLists :
       LET r == Call(First(ms), args) IN
       /\ op' = "first"
       /\ inp' = [reducers |-> ms, args |-> args]
       /\ out' = r.v
       /\ log' = r.log
       /\ UNCHANGED <<registry, privates, heap>>

\* withDefault(d)(match(c).with(t))(...args)
CallWithDefault ==
  /\ op = "idle"
  /\ \E d \in DefaultValues, c \in CondsAt(1), t \in TransformsAt(1),
        args \in ArgLists :
       LET r == Call(WithDefault(d, With(Match(c), t)), args) IN
       /\ op' = "withDefault"
       /\ inp' = [defaultValue |-> d, matcher |-> With(Match(c), t),
                  args |-> args]
       /\ out' = r.v
       /\ log' = r.log
       /\ UNCHANGED <<registry, privates, heap>>

ShapeValues == {Atom("s0"), Atom("s1")}

\* flat objects over the given keys
FlatObjs(keys) ==
  {Obj(f) : f \in UNION {[K -> ShapeValues] : K \in SUBSET keys}}

\* plainAction(S).with(t)(state, action)
CallPlainAction ==
  /\ op = "idle"
  /\ \E S \in FlatObjs({"a", "b"}), t \in TransformsAt(1), state \in Vals,
        action \in FlatObjs({"a", "b", "c"}) :
       LET r == Call(With(PlainAction(S), t), <<state, action>>) IN
       /\ op' = "plainAction"
       /\ inp' = [condition |-> S, reducer |-> t, args |-> <<state, action>>]
       /\ out' = r.v
       /\ log' = r.log
       /\ UNCHANGED <<registry, privates, heap>>

\* The conditions a caller may pass to match.redux: a function of the
\* action, or a shape object whose leaf is a predicate of a field
ReduxConditions ==
  {UFn("c0", 1, sem) : sem \in FirstSems}
    \cup {Obj([key \in {"a"} |-> UFn("p1", 1, "a0")])}

ReduxStates == {Atom("s0"), Atom("s1")}

ReduxActions ==
  {Atom("s1"), Obj([key \in {"a"} |-> Atom("s1")]),
   Obj([key \in {"a"} |-> Atom("s0")])}

\* What a caller may pass to .with() of a redux Matcher at position i: a
\* plain function or a Matcher
ReducersAt(i) ==
  {UFn(TransformIds[i], ar, "res") : ar \in FirstArities}
    \cup MatchersAt(i)

ReducerLists ==
  {rs \in SeqsUpTo(UNION {ReducersAt(i) : i \in 1..MaxFirst}, MaxFirst) :
     Len(rs) >= 1 /\ \A i \in 1..Len(rs) : rs[i] \in ReducersAt(i)}

\* redux(c).with(r1, ..., rn)(state, action)
CallRedux ==
  /\ op = "idle"
  /\ \E c \in ReduxConditions, rs \in ReducerLists, state \in ReduxStates,
        action \in ReduxActions :
       LET r == Call(ReduxWith(Redux(c), rs), <<state, action>>) IN
       /\ op' = "redux"
       /\ inp' = [condition |-> c, reducers |-> rs, args |-> <<state, action>>]
       /\ out' = r.v
       /\ log' = r.log
       /\ UNCHANGED <<registry, privates, heap>>

NextMatch ==
  \/ CallMatch
  \/ CallFirst
  \/ CallWithDefault
  \/ CallPlainAction
  \/ CallRedux
  \/ Done

SpecMatch == Init /\ [][NextMatch]_vars

----------------------------------------------------------------------------
(* Operations of the tree dispatcher *)

Leaf(id) == UFn(id, 2, "res")

\* { prop: { value: child } }
Branch(prop, value, child) ==
  Obj([p \in {prop} |-> Obj([v \in {value} |-> child])])

\* The partial trees a caller may add
AddTrees ==
  { Branch("p", "x", Leaf("f1")),
    Branch("p", "x", Leaf("f2")),
    Branch("p", "y", Leaf("f3")),
    Branch("q", "y", Leaf("f2")),
    Branch("p", "x", Branch("q", "y", Leaf("f3"))),
    Branch("q", "y", Branch("p", "x", Leaf("f1"))),
    Branch("p", "x", Branch("p", "y", Leaf("f2"))),
    merge(Branch("p", "x", Leaf("f1")),
          Branch("q", "x", Branch("p", "y", Leaf("f2")))),
    Undefined }

TreeProps == {"p", "q"}
TreeValues == {"x", "y"}

\* The actions a caller may dispatch: each property absent or set
Actions ==
  {Obj(f) : f \in UNION {[K -> {Atom(v) : v \in TreeValues}] :
                            K \in SUBSET TreeProps}}

ExtraArgs == {<<>>, <<Atom("e1")>>, <<Atom("e1"), Atom("e2")>>}

\* R.add(partialTree)
Add ==
  /\ op = "idle"
  /\ \E tree \in AddTrees :
       /\ op' = "add"
       /\ inp' = [tree |-> tree, before |-> reducers]
       /\ out' = Undefined
       /\ log' = <<>>
       /\ reducers' = add(reducers, tree)
       /\ UNCHANGED <<defaultState, privates, heap>>

\* R(state, action, ...extra)
CallReducer ==
  /\ op = "idle"
  /\ \E state \in {Undefined, Atom("s0")}, action \in Actions,
        extra \in ExtraArgs :
       LET r == reducerCall(reducers, defaultState, state, action, extra) IN
       /\ op' = "reducer"
       /\ inp' = [state |-> state, action |-> action, args |-> extra]
       /\ out' = r.ret.v
       /\ log' = r.ret.log
       /\ reducers' = r.reducers
       /\ UNCHANGED <<defaultState, privates, heap>>

\* findReducer(tree, action) on the registered tree or on one of its leaves
CallFindReducer ==
  /\ op = "idle"
  /\ \E tree \in {reducers, Leaf("f1")}, action \in Actions :
       /\ op' = "findReducer"
       /\ inp' = [tree |-> tree, action |-> action]
       /\ out' = findReducer(tree, action)
       /\ log' = <<>>
       /\ UNCHANGED <<registry, privates, heap>>

\* the orders in which the keys of a mapping may have been written
CombineOrders == {<<"A", "B">>, <<"B", "A">>}

\* The mappings a caller may pass to combineReducers
Mappings ==
  {Obj([key \in K |-> UFn(key, 3, "res")]) :
     K \in SUBSET {"A", "B"}}

CombineStates ==
  {Undefined, Atom("")} \cup
  {Obj(f) : f \in UNION {[K -> {Atom("s0"), Atom("s1")}] :
                            K \in SUBSET {"A", "B", "C"}}}

\* combineReducers(mapping)(state, action)
CallCombineReducers ==
  /\ op = "idle"
  /\ \E mapping \in Mappings, state \in CombineStates,
        action \in {Atom("act")}, order \in CombineOrders :
       LET r == combineReducers(mapping, state, action, order) IN
       /\ op' = "combineReducers"
       /\ inp' = [reducers |-> mapping, state |-> state, action |-> action,
                  order |-> order, after |-> r.state]
       /\ out' = r.v
       /\ log' = r.log
       /\ UNCHANGED <<registry, privates, heap>>

NextTree ==
  \/ Add
  \/ CallReducer
  \/ CallFindReducer
  \/ CallCombineReducers
  \/ Done

SpecTree == Init /\ [][NextTree]_vars

----------------------------------------------------------------------------
(* Construction of Matchers and conditions, compose, and the helpers *)

MaxCompose == 3

ComposeReducers == {UFn("t1", 2, "res"), UFn("t2", 2, "res")}

\* compose(r1, ..., rn)(state, action, ...extra)
CallCompose ==
  /\ op = "idle"
  /\ \E rs \in SeqsUpTo(ComposeReducers, MaxCompose), args \in ArgLists :
       LET r == compose(rs, args) IN
       /\ op' = "compose"
       /\ inp' = [reducers |-> rs, args |-> args]
       /\ out' = r.v
       /\ log' = r.log
       /\ UNCHANGED <<registry, privates, heap>>

\* What a caller may hand to a combinator: undefined, null, a string, {},
\* a shape object, an array, a function and a Matcher
Anything ==
  {Undefined, Null, Atom("string"), EmptyObj,
   Obj([key \in {"a"} |-> UFn("p1", 1, "a0")]), ArrayVal,
   UFn("c1", 1, "T"), With(Match(UFn("c2", 1, "T")), UFn("t2", 2, "res"))}

\* match(x)
ConstructMatch ==
  /\ op = "idle"
  /\ \E x \in Anything :
       /\ op' = "new match"
       /\ inp' = [args |-> <<x>>]
       /\ out' = Match(x)
       /\ log' = <<>>
       /\ UNCHANGED <<registry, privates, heap>>

\* first(...xs)
ConstructFirst ==
  /\ op = "idle"
  /\ \E xs \in SeqsUpTo(Anything, MaxFirst) :
       /\ op' = "new first"
       /\ inp' = [args |-> xs]
       /\ out' = First(xs)
       /\ log' = <<>>
       /\ UNCHANGED <<registry, privates, heap>>

\* always(x)
ConstructAlways ==
  /\ op = "idle"
  /\ \E x \in Anything :
       /\ op' = "new always"
       /\ inp' = [args |-> <<x>>]
       /\ out' = Always(x)
       /\ log' = <<>>
       /\ UNCHANGED <<registry, privates, heap>>

\* actionCondition(x) and plainActionCondition(x)
ConstructActionCondition ==
  /\ op = "idle"
  /\ \E pred \in {"shape", "object"}, x \in Anything :
       /\ op' = "new actionCondition"
       /\ inp' = [pred |-> pred, args |-> <<x>>]
       /\ out' = GetActionCondition(pred, x)
       /\ log' = <<>>
       /\ UNCHANGED <<registry, privates, heap>>

\* plainAction(x)
ConstructPlainAction ==
  /\ op = "idle"
  /\ \E x \in Anything :
       /\ op' = "new plainAction"
       /\ inp' = [args |-> <<x>>]
       /\ out' = PlainAction(x)
       /\ log' = <<>>
       /\ UNCHANGED <<registry, privates, heap>>

\* redux(x)
ConstructRedux ==
  /\ op = "idle"
  /\ \E x \in Anything :
       /\ op' = "new redux"
       /\ inp' = [args |-> <<x>>]
       /\ out' = Redux(x)
       /\ log' = <<>>
       /\ UNCHANGED <<registry, privates, heap>>

\* redux(c).with(...xs)
ConstructReduxWith ==
  /\ op = "idle"
  /\ \E c \in ReduxConditions, xs \in SeqsUpTo(Anything, MaxFirst) :
       /\ op' = "new redux.with"
       /\ inp' = [condition |-> c, args |-> xs]
       /\ out' = ReduxWith(Redux(c), xs)
       /\ log' = <<>>
       /\ UNCHANGED <<registry, privates, heap>>

\* The conditions a caller may hand to actionCondition (pred "shape") and
\* to plainActionCondition (pred "object"): a function, or an object whose
\* values are predicates, respectively values to compare with
ActionConditionsOf(pred) ==
  {UFn("c1", 1, sem) : sem \in FirstSems} \cup {UFn("c1", 2, "a1")}
    \cup (IF pred = "shape"
          THEN {Obj([key \in K |-> UFn(key, 1, "a0")]) :
                  K \in SUBSET {"a", "b"}}
          ELSE FlatObjs({"a", "b"}))

\* actionCondition(c)(a0, a1) and plainActionCondition(c)(a0, a1)
CallActionCondition ==
  /\ op = "idle"
  /\ \E pred \in {"shape", "object"} :
       \E c \in ActionConditionsOf(pred), a0 \in Vals,
          a1 \in Vals \cup FlatObjs({"a", "b"}) :
         LET r == Call(GetActionCondition(pred, c), <<a0, a1>>) IN
         /\ op' = "actionCondition"
         /\ inp' = [pred |-> pred, condition |-> c, args |-> <<a0, a1>>]
         /\ out' = r.v
         /\ log' = r.log
         /\ UNCHANGED <<registry, privates, heap>>

\* always(x)(...args) for a plain function or a Matcher x
CallAlways ==
  /\ op = "idle"
  /\ \E x \in TransformsAt(1) \cup MatchersAt(1), args \in ArgLists :
       LET r == Call(Always(x), args) IN
       /\ op' = "always"
       /\ inp' = [reducer |-> x, args |-> args]
       /\ out' = r.v
       /\ log' = r.log
       /\ UNCHANGED <<registry, privates, heap>>

\* match(c)(...args): a Matcher that was given no transform
CallMatchOnly ==
  /\ op = "idle"
  /\ \E c \in CondsAt(1), args \in ArgLists :
       LET r == Call(Match(c), args) IN
       /\ op' = "match only"
       /\ inp' = [condition |-> c, args |-> args]
       /\ out' = r.v
       /\ log' = r.log
       /\ UNCHANGED <<registry, privates, heap>>

\* redux(c)(state, action) before .with() is called
CallReduxOnly ==
  /\ op = "idle"
  /\ \E c \in ReduxConditions, state \in ReduxStates, action \in ReduxActions :
       LET r == Call(Redux(c), <<state, action>>) IN
       /\ op' = "redux only"
       /\ inp' = [condition |-> c, args |-> <<state, action>>]
       /\ out' = r.v
       /\ log' = r.log
       /\ UNCHANGED <<registry, privates, heap>>

ShapeKeys == {"a", "b"}

\* a shape whose values are predicates, named after the path they sit at
FlatShapes(prefix) ==
  {Obj([key \in K |-> UFn(prefix \o key, 1, "a0")]) :
     K \in SUBSET ShapeKeys \ {{}}}

\* a shape whose values are predicates or shapes of predicates
NestedShapes ==
  {EmptyObj} \cup {Obj(f) : f \in UNION {
     {g \in [K -> {UFn(key, 1, "a0") : key \in ShapeKeys}
                    \cup UNION {FlatShapes(key) : key \in ShapeKeys}] :
        \A key \in K : g[key] = UFn(key, 1, "a0") \/ g[key] \in FlatShapes(key)}
     : K \in SUBSET ShapeKeys}}

\* the objects a shape is tested on: each field absent, a string or an
\* object of strings
NestedInputs ==
  {Obj(f) : f \in UNION {[K -> ShapeValues \cup FlatObjs(ShapeKeys)] :
                            K \in SUBSET ShapeKeys}}

\* shape(condition)(input)
CallShape ==
  /\ op = "idle"
  /\ \E condition \in NestedShapes \cup {UFn("c1", 1, sem) : sem \in FirstSems},
        input \in NestedInputs \cup ShapeValues :
       LET r == Call(Shape(condition), <<input>>) IN
       /\ op' = "shape"
       /\ inp' = [condition |-> condition, predicate |-> Shape(condition),
                  args |-> <<input>>]
       /\ out' = r.v
       /\ log' = r.log
       /\ UNCHANGED <<registry, privates, heap>>

\* match.object(condition)(input) for a condition of literals and of
\* objects of literals
CallObject ==
  /\ op = "idle"
  /\ \E condition \in NestedInputs, input \in NestedInputs :
       LET r == ConditionPredicate("object", condition, input) IN
       /\ op' = "object"
       /\ inp' = [condition |-> condition, args |-> <<input>>]
       /\ out' = r.v
       /\ log' = r.log
       /\ UNCHANGED <<registry, privates, heap>>

\* the Matchers a caller may write inside an inner first, at position i
InnerMatchersAt(i) ==
  {With(Match(UFn(CondIds[i], 0, sem)), UFn(TransformIds[i], tar, "res")) :
     tar \in FirstArities, sem \in FirstSems}

InnerLists ==
  {ms \in SeqsUpTo(UNION {InnerMatchersAt(i) : i \in 1..MaxFirst}, MaxFirst) :
     Len(ms) >= 1 /\ \A i \in 1..Len(ms) : ms[i] \in InnerMatchersAt(i)}

\* first(...) and always(...) Matchers to pass to an outer first
InnerMatchers ==
  {First(ms) : ms \in InnerLists}
    \cup {Always(x) : x \in TransformsAt(1) \cup InnerMatchersAt(1)}

\* the Matchers before the inner one: none, or one that tests the state
EarlierMatchers ==
  {<<>>, <<With(Match(UFn("c0", 0, "a0")), UFn("t0", 0, "res"))>>}

\* the Matcher after the inner one
LaterMatchers ==
  {With(Match(UFn("cL", 0, sem)), UFn("tL", 0, "res")) : sem \in FirstSems}

\* first(...earlier, inner, later)(...args), inner made by first or always
CallNestedFirst ==
  /\ op = "idle"
  /\ \E earlier \in EarlierMatchers, inner \in InnerMatchers,
        later \in LaterMatchers, args \in ArgLists :
       LET r == Call(First(earlier \o <<inner, later>>), args) IN
       /\ op' = "nested first"
       /\ inp' = [earlier |-> earlier, inner |-> inner, later |-> later,
                  args |-> args]
       /\ out' = r.v
       /\ log' = r.log
       /\ UNCHANGED <<registry, privates, heap>>

NextCombinators ==
  \/ CallCompose
  \/ ConstructMatch
  \/ ConstructFirst
  \/ ConstructAlways
  \/ ConstructActionCondition
  \/ ConstructPlainAction
  \/ ConstructRedux
  \/ ConstructReduxWith
  \/ CallActionCondition
  \/ CallAlways
  \/ CallMatchOnly
  \/ CallReduxOnly
  \/ CallShape
  \/ CallObject
  \/ CallNestedFirst
  \/ Done

SpecCombinators == Init /\ [][NextCombinators]_vars

----------------------------------------------------------------------------
(* Matchers as objects: match(c), M.with(t) and M(...args) on the Matchers
   constructed so far *)

MaxMatchers == 3

\* a reference to the Matcher at place m of privates
Ref(m) == [k |-> "ref", m |-> m]

WithConditions == {UFn("c1", 1, sem) : sem \in FirstSems}
WithReducers == {UFn("t1", 1, "res"), UFn("t2", 1, "res")}

\* M = match(c)
MatcherNew ==
  /\ op = "idle"
  /\ \E c \in WithConditions :
       LET r == NewMatcher(privates, c, RIdentity) IN
       /\ Len(privates) < MaxMatchers
       /\ op' = "new"
       /\ inp' = [condition |-> c, before |-> privates]
       /\ out' = Ref(r.matcher)
       /\ log' = <<>>
       /\ privates' = r.privates
       /\ UNCHANGED <<registry, heap>>

\* M.with(t)
MatcherWithCall ==
  /\ op = "idle"
  /\ \E m \in 1..Len(privates), t \in WithReducers :
       LET r == MatcherWith(privates, m, t) IN
       /\ Len(privates) < MaxMatchers
       /\ op' = "with"
       /\ inp' = [matcher |-> m, reducer |-> t, before |-> privates]
       /\ out' = Ref(r.matcher)
       /\ log' = <<>>
       /\ privates' = r.privates
       /\ UNCHANGED <<registry, heap>>

\* M(state)
MatcherInvoke ==
  /\ op = "idle"
  /\ \E m \in 1..Len(privates), args \in {<<Atom("s0")>>, <<Atom("s1")>>} :
       LET r == Call(privates[m], args) IN
       /\ op' = "invoke"
       /\ inp' = [matcher |-> m, args |-> args]
       /\ out' = r.v
       /\ log' = r.log
       /\ UNCHANGED <<registry, privates, heap>>

NextWith ==
  \/ MatcherNew
  \/ MatcherWithCall
  \/ MatcherInvoke
  \/ Done

SpecWith == Init /\ [][NextWith]_vars

----------------------------------------------------------------------------
(* Calling the Matchers a caller keeps, more than once *)

\* A call after which the Matcher has dropped its transform
InvokeOnce(table, m, args) ==
  [privates |-> [table EXCEPT ![m] = Matcher(table[m].condition, RIdentity)],
   ret |-> Call(table[m], args)]

\* reduce(...args) of the Matcher at place m of privates: the table after
\* the call, which R.ifElse and the reducer of match.first only read, and
\* the outcome
Invoke(table, m, args) ==
  [privates |-> table, ret |-> Call(table[m], args)]

\* one Matcher or two of each constructor of the library
PureMatchers ==
  {With(Match(UFn("c1", 1, sem)), UFn("t1", 1, "res")) : sem \in {"T", "a0"}}
    \cup {First(<<With(Match(UFn("c1", 1, "a0")), UFn("t1", 1, "res")),
                  With(Match(UFn("c2", 1, "T")), UFn("t2", 2, "res"))>>)}
    \cup {Always(UFn("t1", 1, "res"))}
    \cup {With(PlainAction(Obj([key \in {"a"} |-> Atom("s1")])),
               UFn("t1", 2, "res"))}
    \cup {ReduxWith(Redux(Obj([key \in {"a"} |-> UFn("p1", 1, "a0")])),
                    <<UFn("t1", 2, "res")>>)}

PureArgs == {<<state, action>> : state \in Vals, action \in ReduxActions}

\* the caller makes a Matcher and keeps it
BuildMatcher ==
  /\ op = "idle"
  /\ \E built \in PureMatchers :
       LET r == NewMatcher(privates, built.condition, built.reducer) IN
       /\ Len(privates) < MaxMatchers
       /\ op' = "build"
       /\ inp' = [matcher |-> built]
       /\ out' = Ref(r.matcher)
       /\ log' = <<>>
       /\ privates' = r.privates
       /\ UNCHANGED <<registry, heap>>

\* M(state, action)
InvokeMatcher ==
  /\ op = "idle"
  /\ \E m \in 1..Len(privates), args \in PureArgs :
       LET r == Invoke(privates, m, args) IN
       /\ op' = "call"
       /\ inp' = [matcher |-> m, args |-> args]
       /\ out' = r.ret.v
       /\ log' = r.ret.log
       /\ privates' = r.privates
       /\ UNCHANGED <<registry, heap>>

\* M(state, action) once more, right after the call and with its arguments
InvokeAgain ==
  /\ op = "call"
  /\ LET r == Invoke(privates, inp.matcher, inp.args) IN
     /\ op' = "call again"
     /\ inp' = [matcher |-> inp.matcher, args |-> inp.args,
                first |-> Ret(out, log)]
     /\ out' = r.ret.v
     /\ log' = r.ret.log
     /\ privates' = r.privates
     /\ UNCHANGED <<registry, heap>>

NextPure ==
  \/ BuildMatcher
  \/ InvokeMatcher
  \/ InvokeAgain
  \/ Done

SpecPure == Init /\ [][NextPure]_vars

----------------------------------------------------------------------------
(* Two reducer() instances and the caller's tree objects, by reference *)

\* heap.objects[a] is the object at address a, its values being leaves or
\* references to objects; objects 1 and 2 are the registries of R1 and R2;
\* heap.trees are the roots of the trees the caller has written
MaxObjects == 7

Instances == {1, 2}

\* a reference to the object at address a
Ptr(a) == [k |-> "ptr", a |-> a]
IsPtr(v) == v.k = "ptr"

\* object[key] = value on the object at address a
SetKey(objects, a, key, value) ==
  [objects EXCEPT ![a] =
     Obj([k2 \in Keys(objects[a]) \cup {key} |->
           IF k2 = key THEN value ELSE objects[a].o[k2]])]

RECURSIVE Deref(_, _)
\* the tree that is read from the object at address a
Deref(objects, a) ==
  Obj([key \in Keys(objects[a]) |->
        IF IsPtr(objects[a].o[key])
        THEN Deref(objects, objects[a].o[key].a)
        ELSE objects[a].o[key]])

RECURSIVE Reach(_, _)
\* the addresses of the objects of the tree at address a
Reach(objects, a) ==
  {a} \cup UNION {Reach(objects, objects[a].o[key].a) :
                    key \in {k2 \in Keys(objects[a]) :
                               IsPtr(objects[a].o[k2])}}

\* The order in which the keys of a source object are visited
HeapKeyOrder == <<"p", "q", "x", "y">>

RECURSIVE mergeInto(_, _, _, _)

\* A merge that assigns a plain object of the source where the destination
\* has none
mergeIntoByReference(objects, dst, src, i) ==
  IF i > Len(HeapKeyOrder) THEN objects
  ELSE LET key == HeapKeyOrder[i] IN
       IF key \notin Keys(objects[src])
       THEN mergeInto(objects, dst, src, i + 1)
       ELSE LET srcValue == objects[src].o[key]
                objValue == Get(objects[dst], key)
            IN IF IsPtr(srcValue) /\ IsPtr(objValue)
               THEN mergeInto(mergeInto(objects, objValue.a, srcValue.a, 1),
                              dst, src, i + 1)
               ELSE mergeInto(SetKey(objects, dst, key, srcValue),
                              dst, src, i + 1)

\* _.merge(object, source) on the objects at dst and src, from key i of the
\* source on: a plain object of the source is merged into the plain object
\* the destination has at the key, or into a new object that is then
\* assigned at the key; a function of the source is assigned
mergeInto(objects, dst, src, i) ==
  IF i > Len(HeapKeyOrder) THEN objects
  ELSE LET key == HeapKeyOrder[i] IN
       IF key \notin Keys(objects[src])
       THEN mergeInto(objects, dst, src, i + 1)
       ELSE LET srcValue == objects[src].o[key]
                objValue == Get(objects[dst], key)
                fresh == Len(objects) + 1
            IN IF IsPtr(srcValue) /\ IsPtr(objValue)
               THEN mergeInto(mergeInto(objects, objValue.a, srcValue.a, 1),
                              dst, src, i + 1)
               ELSE IF IsPtr(srcValue)
               THEN mergeInto(
                      mergeInto(Append(SetKey(objects, dst, key, Ptr(fresh)),
                                       EmptyObj),
                                fresh, srcValue.a, 1),
                      dst, src, i + 1)
               ELSE mergeInto(SetKey(objects, dst, key, srcValue),
                              dst, src, i + 1)

RECURSIVE Alloc(_, _)
\* the caller writes a tree literal with one key in each object: the heap
\* with its objects, the root last
Alloc(objects, tree) ==
  LET key == CHOOSE k2 \in Keys(tree) : TRUE
      child == tree.o[key]
      below == IF isPlainObject(child) THEN Alloc(objects, child) ELSE objects
  IN Append(below,
            Obj([k2 \in {key} |->
                  IF isPlainObject(child) THEN Ptr(Len(below)) ELSE child]))

\* The trees a caller may write
HeapTrees ==
  { Branch("p", "x", Leaf("f1")),
    Branch("p", "y", Leaf("f2")),
    Branch("p", "x", Branch("q", "y", Leaf("f3"))) }

\* tree = { ... }
MakeTree ==
  /\ op = "idle"
  /\ \E tree \in HeapTrees :
       LET objects == Alloc(heap.objects, tree) IN
       /\ Len(objects) <= MaxObjects
       /\ op' = "tree"
       /\ inp' = [tree |-> tree]
       /\ out' = Ptr(Len(objects))
       /\ log' = <<>>
       /\ heap' = [objects |-> objects,
                   trees |-> Append(heap.trees, Len(objects))]
       /\ UNCHANGED <<registry, privates>>

\* R1.add(tree) or R2.add(tree) with a tree the caller has written
HeapAdd ==
  /\ op = "idle"
  /\ \E instance \in Instances, t \in 1..Len(heap.trees) :
       LET objects == mergeInto(heap.objects, instance, heap.trees[t], 1) IN
       /\ Len(objects) <= MaxObjects
       /\ op' = "heap add"
       /\ inp' = [instance |-> instance, tree |-> heap.trees[t],
                  before |-> heap.objects]
       /\ out' = Undefined
       /\ log' = <<>>
       /\ heap' = [heap EXCEPT !.objects = objects]
       /\ UNCHANGED <<registry, privates>>

\* tree.x = g, tree.p.x = g, ...: the caller changes an object of a tree
\* after it was written
MutateTree ==
  /\ op = "idle"
  /\ \E t \in 1..Len(heap.trees), key \in {"x"} :
       \E a \in Reach(heap.objects, heap.trees[t]) :
         /\ op' = "mutate"
         /\ inp' = [tree |-> heap.trees[t], object |-> a, key |-> key,
                    before |-> heap.objects]
         /\ out' = Undefined
         /\ log' = <<>>
         /\ heap' = [heap EXCEPT
                       !.objects = SetKey(heap.objects, a, key, Leaf("g"))]
         /\ UNCHANGED <<registry, privates>>

\* The actions a caller may dispatch to R1 and R2
HeapActions ==
  {Obj([p \in {"p"} |-> Atom(v)]) : v \in TreeValues}
    \cup {Obj([p \in TreeProps |-> Atom(IF p = "p" THEN "x" ELSE "y")])}

\* R1(state, action) or R2(state, action)
HeapReducer ==
  /\ op = "idle"
  /\ \E instance \in Instances, state \in {Atom("s0")},
        action \in HeapActions :
       LET r == innerReducer(Deref(heap.objects, instance), defaultState,
                             state, action, <<>>) IN
       /\ op' = "heap reducer"
       /\ inp' = [instance |-> instance, state |-> state, action |-> action]
       /\ out' = r.v
       /\ log' = r.log
       /\ UNCHANGED <<registry, privates, heap>>

NextHeap ==
  \/ MakeTree
  \/ HeapAdd
  \/ MutateTree
  \/ HeapReducer
  \/ Done

SpecHeap == Init /\ [][NextHeap]_vars

----------------------------------------------------------------------------
(* C1 *)

\* C1: for M = match(c).with(t) and every argument list args, M(...args) is
\* t(...args) when c(...args) is true and args[0] otherwise; c is called
\* with exactly the call arguments and t is not called when c is false.
C1_MatcherAppliesForAllArgs ==
  op = "match" =>
    /\ out = IF Holds(inp.condition, inp.args)
             THEN Res(inp.reducer, inp.args) ELSE FirstArg(inp.args)
    /\ Len(log) >= 1 /\ log[1] = CallRec(inp.condition, inp.args)
    /\ ~Holds(inp.condition, inp.args) => ~Called(inp.reducer)

\* The same statement for calls that supply at least as many arguments as
\* the longest parameter list of the condition and the transform
MatcherAppliesWhenSaturated ==
  (op = "match" /\ Len(inp.args) >= Arity(Matcher(inp.condition, inp.reducer)))
    =>
    /\ out = IF Holds(inp.condition, inp.args)
             THEN Res(inp.reducer, inp.args) ELSE FirstArg(inp.args)
    /\ Len(log) >= 1 /\ log[1] = CallRec(inp.condition, inp.args)
    /\ ~Holds(inp.condition, inp.args) => ~Called(inp.reducer)

----------------------------------------------------------------------------
(* C2 *)

\* the smallest index whose Matcher's condition is true of args, 0 if none
FirstHolding(ms, args) ==
  IF \E i \in 1..Len(ms) : Holds(ms[i].condition, args)
  THEN CHOOSE i \in 1..Len(ms) :
         /\ Holds(ms[i].condition, args)
         /\ \A j \in 1..(i - 1) : ~Holds(ms[j].condition, args)
  ELSE 0

FirstChoice(ms, args) ==
  LET i == FirstHolding(ms, args) IN
  /\ out = IF i = 0 THEN FirstArg(args) ELSE Res(ms[i].reducer, args)
  /\ \A j \in 1..Len(ms) :
       /\ (i # 0 /\ j > i) => ~Called(ms[j].condition)
       /\ j # i => ~Called(ms[j].reducer)

\* C2: first(M1, ..., Mn)(...args) is t_i(...args) for the smallest i whose
\* condition c_i(...args) is true and args[0] when no condition is true; no
\* condition after i is evaluated and no transform other than t_i is called.
C2_FirstUsesFirstMatch ==
  op = "first" => FirstChoice(inp.reducers, inp.args)

\* The same statement for calls that supply at least as many arguments as
\* the longest parameter list among the Matchers (and at least one)
FirstUsesFirstMatchWhenSaturated ==
  (/\ op = "first"
   /\ Len(inp.args) >= 1
   /\ \A i \in 1..Len(inp.reducers) :
        Len(inp.args) >= Arity(inp.reducers[i]))
    => FirstChoice(inp.reducers, inp.args)

----------------------------------------------------------------------------
(* C3 *)

\* C3: withDefault(d)(M)(undefined, ...rest) returns d without calling M's
\* condition or transform, and withDefault(d)(M)(x, ...rest) returns
\* M(x, ...rest) for every defined x.
C3_WithDefaultForAllArgs ==
  (op = "withDefault" /\ Len(inp.args) >= 1) =>
    IF IsUndefined(inp.args[1])
    THEN out = inp.defaultValue /\ log = <<>>
    ELSE out = Call(inp.matcher, inp.args).v

\* The same statement for calls that supply at least as many arguments as
\* the Matcher's arity
WithDefaultWhenSaturated ==
  (/\ op = "withDefault"
   /\ Len(inp.args) >= 1
   /\ Len(inp.args) >= Arity(inp.matcher)) =>
    IF IsUndefined(inp.args[1])
    THEN out = inp.defaultValue /\ log = <<>>
    ELSE /\ out = Call(inp.matcher, inp.args).v
         /\ out = IF Holds(inp.matcher.condition, inp.args)
                  THEN Res(inp.matcher.reducer, inp.args)
                  ELSE inp.args[1]

----------------------------------------------------------------------------
(* C4 *)

\* the outer condition c of redux(c) holds of the action alone
OuterHolds(c, action) ==
  IF c.k = "fn" THEN Holds(c, <<action>>)
  ELSE \A key \in Keys(c) : Holds(c.o[key], <<Get(action, key)>>)

\* r matches as a member of the group: a plain function always does
Chosen(r, args) == IsMatcher(r) => Holds(r.condition, args)

\* the smallest index of rs that matches, 0 if none
FirstChosen(rs, args) ==
  IF \E i \in 1..Len(rs) : Chosen(rs[i], args)
  THEN CHOOSE i \in 1..Len(rs) :
         /\ Chosen(rs[i], args)
         /\ \A j \in 1..(i - 1) : ~Chosen(rs[j], args)
  ELSE 0

\* the transform of r: r itself when r is a plain function
TransformOf(r) == IF IsMatcher(r) THEN r.reducer ELSE r

CalledAny(r) ==
  Called(TransformOf(r)) \/ (IsMatcher(r) /\ Called(r.condition))

ReduxGroup(c, rs, args) ==
  IF ~OuterHolds(c, args[2])
  THEN out = args[1] /\ \A j \in 1..Len(rs) : ~CalledAny(rs[j])
  ELSE LET i == FirstChosen(rs, args) IN
       /\ out = IF i = 0 THEN args[1] ELSE Res(TransformOf(rs[i]), args)
       /\ \A j \in 1..Len(rs) :
            /\ (i # 0 /\ j > i) => ~CalledAny(rs[j])
            /\ j # i => ~Called(TransformOf(rs[j]))

\* C4: redux(c).with(r1, ..., rn)(state, action) returns state, calling no
\* inner condition and no r_k, when c is false of the action alone;
\* otherwise it returns what first(...) returns over r1..rn with every plain
\* function an always-matching Matcher: the first plain function or
\* matching Matcher is chosen and nothing after it is called.
C4_ReduxGatesAndPromotes ==
  op = "redux" => ReduxGroup(inp.condition, inp.reducers, inp.args)

\* The same statement when no r_k declares more than two parameters
ReduxGatesAndPromotesWhenSaturated ==
  (/\ op = "redux"
   /\ \A i \in 1..Len(inp.reducers) :
        Arity(ConvertToMatcher(inp.reducers[i])) <= Len(inp.args))
    => ReduxGroup(inp.condition, inp.reducers, inp.args)

----------------------------------------------------------------------------
(* C5 *)

\* every key of S is present in the action with an equal value
ShapeMatches(S, action) ==
  \A key \in Keys(S) : key \in Keys(action) /\ action.o[key] = S.o[key]

PlainActionResult(S, t, args) ==
  IF ShapeMatches(S, args[2])
  THEN out = Res(t, args)
  ELSE out = args[1] /\ ~Called(t)

\* C5: plainAction(S).with(t)(state, action) returns t(state, action) iff
\* every key of S is present in action with an equal value (extra keys are
\* ignored), and otherwise returns state without calling t.
C5_PlainActionPartialMatch ==
  op = "plainAction" =>
    PlainActionResult(inp.condition, inp.reducer, inp.args)

\* The same statement when t declares at most two parameters
PlainActionPartialMatchWhenSaturated ==
  (op = "plainAction" /\ Arity(inp.reducer) <= Len(inp.args)) =>
    PlainActionResult(inp.condition, inp.reducer, inp.args)

----------------------------------------------------------------------------
(* C6, C7, C8 *)

\* property, value, property, value, ...
LeafPaths ==
  {<<p, v>> : p \in TreeProps, v \in TreeValues}
    \cup {<<p, v, p2, v2>> : p \in TreeProps, v \in TreeValues,
                             p2 \in TreeProps, v2 \in TreeValues}

RECURSIVE At(_, _)
\* tree[path[1]][path[2]]...
At(tree, path) ==
  IF Len(path) = 0 THEN tree ELSE At(Get(tree, Head(path)), Tail(path))

\* every ancestor (property, value) pair of the path is in the action
PairsMatch(path, action) ==
  \A i \in 1..Len(path) :
    i % 2 = 1 => Get(action, path[i]) = Atom(path[i + 1])

\* the paths of the leaves of tree all of whose ancestor pairs match
MatchingLeaves(tree, action) ==
  {path \in LeafPaths :
     IsFunction(At(tree, path)) /\ PairsMatch(path, action)}

\* C6: findReducer(tree, action) returns a leaf f exactly when f is the only
\* leaf of tree all of whose ancestor (property, value) pairs are in the
\* action; it returns tree itself when tree is a function and undefined
\* when no leaf matches.
C6_FindReducerUniqueLeaf ==
  op = "findReducer" =>
    IF IsFunction(inp.tree) THEN out = inp.tree
    ELSE LET L == MatchingLeaves(inp.tree, inp.action) IN
         /\ Cardinality(L) = 1 => out = At(inp.tree, CHOOSE path \in L : TRUE)
         /\ Cardinality(L) = 0 => out = Undefined
         /\ IsFunction(out) => Cardinality(L) = 1

\* a property sits at two levels of the tree and only the upper leaf agrees
C6_Witness ==
  /\ op = "findReducer"
  /\ out = Leaf("f1")
  /\ IsFunction(At(inp.tree, <<"q", "x", "p", "y">>))
  /\ Get(inp.action, "q") = Atom("x")

\* C7: when two or more leaves have all their ancestor pairs matched by the
\* action, findReducer and the callable built by reducer() throw 'More than
\* one reducer matches this action.' and no leaf is returned or invoked.
C7_AmbiguousDispatchThrows ==
  /\ (op = "findReducer" /\ ~IsFunction(inp.tree)
        /\ Cardinality(MatchingLeaves(inp.tree, inp.action)) >= 2)
       => out = AmbiguousDispatch
  /\ (op = "reducer"
        /\ Cardinality(MatchingLeaves(reducers, inp.action)) >= 2)
       => out = AmbiguousDispatch /\ log = <<>>

\* the reducer was called with an action that matches leaves at two depths
C7_Witness ==
  /\ op = "reducer"
  /\ out = AmbiguousDispatch
  /\ \E p1, p2 \in MatchingLeaves(reducers, inp.action) : Len(p1) < Len(p2)

----------------------------------------------------------------------------
(* C9 *)

\* the action that holds exactly the pairs of the path
ActionOf(path) ==
  LET odd == {j \in 1..Len(path) : j % 2 = 1}
      last(p) == CHOOSE i \in odd :
                   path[i] = p /\ \A j \in odd : path[j] = p => j <= i
  IN Obj([p \in {path[i] : i \in odd} |-> Atom(path[last(p) + 1])])

\* the tree the caller added, {} when none was passed
Added == IF IsUndefined(inp.tree) THEN EmptyObj ELSE inp.tree

\* the add supplied a leaf at a proper prefix of the path
LeafAbove(tree, path) ==
  \E n \in 1..(Len(path) - 1) : IsFunction(At(tree, SubSeq(path, 1, n)))

\* C9 (as claimed): after add(partialTree), every leaf the tree supplies is
\* registered at its path, and every leaf registered before at a path for
\* which the tree supplies nothing is still registered and still
\* dispatched to.
C9_AddKeepsEveryUntouchedLeaf ==
  op = "add" =>
    \A path \in LeafPaths :
      /\ IsFunction(At(Added, path)) => At(reducers, path) = At(Added, path)
      /\ (IsFunction(At(inp.before, path)) /\ IsUndefined(At(Added, path)))
           => /\ At(reducers, path) = At(inp.before, path)
              /\ PairsMatch(path, ActionOf(path))
                   => findReducer(reducers, ActionOf(path))
                        = At(inp.before, path)

\* C9 (amended): after add(partialTree), every leaf the tree supplies is
\* registered at its path, replacing what was there; every leaf registered
\* before at a path for which the tree supplies nothing, and above which it
\* supplies no leaf, is still registered; and a registered leaf is
\* dispatched to for every action that matches it and no other leaf.
C9_AddIsDeepMerge ==
  op = "add" =>
    /\ \A path \in LeafPaths :
         /\ IsFunction(At(Added, path))
              => At(reducers, path) = At(Added, path)
         /\ (/\ IsFunction(At(inp.before, path))
             /\ IsUndefined(At(Added, path))
             /\ ~LeafAbove(Added, path))
              => At(reducers, path) = At(inp.before, path)
    /\ \A action \in Actions :
         \A path \in MatchingLeaves(reducers, action) :
           MatchingLeaves(reducers, action) = {path}
             => findReducer(reducers, action) = At(reducers, path)

\* the second add replaced a leaf and kept another one, which is dispatched
C9_Witness ==
  /\ op = "add"
  /\ \E path \in LeafPaths :
       /\ IsFunction(At(Added, path))
       /\ IsFunction(At(inp.before, path))
       /\ At(inp.before, path) # At(Added, path)
       /\ At(reducers, path) = At(Added, path)
  /\ \E path \in LeafPaths :
       /\ IsFunction(At(inp.before, path))
       /\ IsUndefined(At(Added, path))
       /\ At(reducers, path) = At(inp.before, path)
       /\ findReducer(reducers, ActionOf(path)) = At(inp.before, path)

----------------------------------------------------------------------------
(* C10 *)

\* state && state[k]
Slice(state, key) == IF Truthy(state) THEN Get(state, key) ELSE state

\* C10: combineReducers(mapping)(state, action) calls
\* mapping[k](state && state[k], action, state) for every key k of mapping,
\* the third argument being the entire state (undefined, like the slice,
\* when state is undefined), and the value returned becomes the output's
\* value at k.
C10_CombineReducersPassesEntireState ==
  op = "combineReducers" =>
    \A key \in Keys(inp.reducers) :
      LET args == <<Slice(inp.state, key), inp.action, inp.state>> IN
      /\ key \in Keys(out)
      /\ out.o[key] = Res(inp.reducers.o[key], args)
      /\ \E i \in 1..Len(log) : log[i] = CallRec(inp.reducers.o[key], args)
      /\ IsUndefined(inp.state) =>
           IsUndefined(out.o[key].args[1]) /\ IsUndefined(out.o[key].args[3])

\* a reducer was handed a slice and the whole state, which has a key that
\* the mapping does not have
C10_Witness ==
  /\ op = "combineReducers"
  /\ Keys(inp.reducers) = {"A", "B"}
  /\ Keys(inp.state) = {"A", "C"}
  /\ out.o["A"].args[3] = inp.state
  /\ out.o["A"].args[1] = inp.state.o["A"]
  /\ IsUndefined(out.o["B"].args[1])

----------------------------------------------------------------------------
(* C11 *)

RECURSIVE Nested(_, _)
\* rn(... r2(r1(state, action, ...extra), action, ...extra) ...,
\*    action, ...extra) for the first n transforms of rs
Nested(rs, args) ==
  IF Len(rs) = 0 THEN args[1]
  ELSE Res(rs[Len(rs)],
           <<Nested(SubSeq(rs, 1, Len(rs) - 1), args)>> \o Tail(args))

\* C11: compose(r1, ..., rn)(state, action, ...extra) equals
\* rn(... r1(state, action, ...extra) ..., action, ...extra): the transforms
\* run in the order supplied, each is given the state the previous one
\* returned and the original action and extra arguments.
C11_ComposeThreadsState ==
  op = "compose" =>
    /\ out = Nested(inp.reducers, inp.args)
    /\ Len(log) = Len(inp.reducers)
    /\ \A i \in 1..Len(log) :
         log[i] = CallRec(inp.reducers[i],
                          <<Nested(SubSeq(inp.reducers, 1, i - 1), inp.args)>>
                            \o Tail(inp.args))

\* three transforms, not all the same, ran on a state, an action and an
\* extra argument
C11_Witness ==
  /\ op = "compose"
  /\ Len(inp.reducers) = 3
  /\ inp.reducers[1] # inp.reducers[2]
  /\ Len(inp.args) = 3
  /\ out = Res(inp.reducers[3],
              <<Res(inp.reducers[2],
                    <<Res(inp.reducers[1], inp.args), inp.args[2],
                      inp.args[3]>>),
                inp.args[2], inp.args[3]>>)

----------------------------------------------------------------------------
(* C12, C13 *)

----------------------------------------------------------------------------
(* C14 *)

\* x is neither a function nor a Matcher
NotCallable(x) == x.k \in {"atom", "null", "undef", "obj", "array"}

\* C14: first() with no argument, first(...) with an argument that is not a
\* Matcher, always(x) with x neither a function nor a Matcher, and
\* redux(c).with(...) with no transform or with one that is neither a
\* function nor a Matcher throw when they are called: no Matcher is
\* returned.
C14_CombinatorsValidateWhenCalled ==
  /\ (op = "new first"
        /\ (Len(inp.args) = 0
              \/ \E i \in 1..Len(inp.args) : inp.args[i].k # "Matcher"))
       => IsThrow(out) /\ ~IsMatcher(out)
  /\ (op = "new always" /\ NotCallable(inp.args[1]))
       => IsThrow(out) /\ ~IsMatcher(out)
  /\ (op = "new redux.with"
        /\ (Len(inp.args) = 0
              \/ \E i \in 1..Len(inp.args) : NotCallable(inp.args[i])))
       => IsThrow(out) /\ ~IsMatcher(out)

\* first was handed a Matcher and a plain function and threw
C14_Witness ==
  /\ op = "new first"
  /\ Len(inp.args) = 2
  /\ IsMatcher(inp.args[1])
  /\ inp.args[2].k = "fn"
  /\ IsThrow(out)

----------------------------------------------------------------------------
(* C15 *)

\* M.with(t2) returned a new Matcher with M's condition and t2, and M is as
\* it was
WithIsNew ==
  op = "with" =>
    /\ out.m \notin 1..Len(inp.before)
    /\ privates[out.m] = Matcher(inp.before[inp.matcher].condition,
                                 inp.reducer)
    /\ privates[inp.matcher] = inp.before[inp.matcher]

\* a Matcher applies the transform it has, and calls nothing but its own
\* condition and transform
InvokeUsesOwn ==
  op = "invoke" =>
    LET M == privates[inp.matcher] IN
    /\ out = IF Holds(M.condition, inp.args)
             THEN Call(M.reducer, inp.args).v ELSE inp.args[1]
    /\ \A i \in 1..Len(log) :
         \/ log[i] = CallRec(M.condition, inp.args)
         \/ M.reducer.k = "fn" /\ log[i] = CallRec(M.reducer, inp.args)

\* no step changes the condition or the transform of a Matcher
MatchersNeverChange ==
  \A m \in 1..Len(privates) :
    Len(privates') >= m /\ privates'[m] = privates[m]

\* C15: M.with(t2) returns a new Matcher that has M's condition and the
\* transform t2 and leaves M unchanged: after any number of .with calls M
\* still applies its own transform, the new Matcher never calls M's
\* transform, and M's condition is the same function as before.
C15_WithLeavesMatcherUnchanged ==
  /\ [](WithIsNew /\ InvokeUsesOwn)
  /\ [][MatchersNeverChange]_vars

\* a Matcher with transform t1 was called after .with(t2) had made a
\* Matcher of its condition, and it applied t1
C15_Witness ==
  /\ op = "invoke"
  /\ privates[inp.matcher].reducer = UFn("t1", 1, "res")
  /\ \E n \in 1..Len(privates) :
       /\ n > inp.matcher
       /\ privates[n] = Matcher(privates[inp.matcher].condition,
                                UFn("t2", 1, "res"))
  /\ out = Res(UFn("t1", 1, "res"), inp.args)

----------------------------------------------------------------------------
(* C16 *)

----------------------------------------------------------------------------
(* C17 *)

\* C17: actionCondition, plainActionCondition, plainAction and redux throw
\* when they are called with a condition that is neither a function nor a
\* plain object (a string, null, an array): no condition or Matcher is
\* constructed from such a value.
C17_ActionHelpersRejectNonPlainObjects ==
  (/\ op \in {"new actionCondition", "new plainAction", "new redux"}
   /\ ~IsFunction(inp.args[1])
   /\ ~isPlainObject(inp.args[1]))
    => IsThrow(out)

\* The same statement for the values that are not objects at all
ActionHelpersRejectPrimitives ==
  (/\ op \in {"new actionCondition", "new plainAction", "new redux"}
   /\ inp.args[1].k \in {"atom", "null", "undef"})
    => out = Throw("condition must be an object or function")

\* What the helpers construct from an array throws when it is invoked
ArrayConditionFailsWhenInvoked ==
  (/\ op \in {"new actionCondition", "new plainAction", "new redux"}
   /\ inp.args[1] = ArrayVal)
    => /\ IsFunction(out)
       /\ \A state \in ReduxStates, action \in ReduxActions :
            Call(out, <<state, action>>).v = Throw("TypeError")

----------------------------------------------------------------------------
(* C18 *)

AlwaysResult(x, args) ==
  IF IsMatcher(x)
  THEN out = IF Holds(x.condition, args)
             THEN Res(x.reducer, args) ELSE FirstArg(args)
  ELSE out = Res(x, args) /\ log = <<CallRec(x, args)>>

\* C18: for a plain function t, always(t)(...args) equals t(...args) for
\* every args; for a Matcher M, always(M)(...args) equals M(...args), M's
\* own condition deciding between M's transform and args[0].
C18_AlwaysAppliesForAllArgs ==
  op = "always" => AlwaysResult(inp.reducer, inp.args)

\* The same statement for calls that supply at least as many arguments as
\* the longest parameter list
AlwaysAppliesWhenSaturated ==
  (op = "always" /\ Len(inp.args) >= Arity(Always(inp.reducer)))
    => AlwaysResult(inp.reducer, inp.args)

----------------------------------------------------------------------------
(* C19 *)

\* C19: a Matcher that was given no transform returns its first argument
\* for every argument list, whether its condition is true or false:
\* match(c)(...args) is args[0], and redux(c)(state, action) is state after
\* c was evaluated on the action alone.
C19_NoTransformReturnsFirstArg ==
  /\ op = "match only" => out = inp.args[1]
  /\ op = "redux only" =>
       /\ out = inp.args[1]
       /\ inp.condition.k = "fn"
            => log = <<CallRec(inp.condition, <<inp.args[2]>>)>>

\* The same statement for calls that supply at least as many arguments as
\* the condition declares
NoTransformWhenSaturated ==
  /\ (op = "match only" /\ Len(inp.args) >= Arity(inp.condition))
       => /\ out = inp.args[1]
          /\ log = <<CallRec(inp.condition, inp.args)>>
  /\ op = "redux only" =>
       /\ out = inp.args[1]
       /\ inp.condition.k = "fn"
            => log = <<CallRec(inp.condition, <<inp.args[2]>>)>>

----------------------------------------------------------------------------
(* C20 *)

RECURSIVE ShapeHolds(_, _)
\* every leaf predicate of the shape, at every nesting level, is true of
\* the corresponding field of the input
ShapeHolds(shape, input) ==
  \A key \in Keys(shape) :
    IF isPlainObject(shape.o[key])
    THEN ShapeHolds(shape.o[key], Get(input, key))
    ELSE Holds(shape.o[key], <<Get(input, key)>>)

\* no value of the shape is itself a shape
IsFlatShape(shape) == \A key \in Keys(shape) : ~isPlainObject(shape.o[key])

\* C20: shape(condition) of a plain object matches recursively: the
\* predicate is true exactly when every leaf predicate at every nesting
\* level is true of the corresponding field of the input; a function
\* condition is returned unchanged.
C20_ShapeMatchesRecursively ==
  op = "shape" =>
    IF isPlainObject(inp.condition)
    THEN out = Bool(ShapeHolds(inp.condition, inp.args[1]))
    ELSE inp.predicate = inp.condition

\* The same statement for the shapes all of whose values are predicates
ShapeMatchesOneLevel ==
  (op = "shape" /\ (isPlainObject(inp.condition) => IsFlatShape(inp.condition)))
    => IF isPlainObject(inp.condition)
       THEN out = Bool(ShapeHolds(inp.condition, inp.args[1]))
       ELSE inp.predicate = inp.condition

\* A value of the shape that is itself a shape is called as a predicate
NestedShapeThrows ==
  (/\ op = "shape"
   /\ isPlainObject(inp.condition)
   /\ ~IsFlatShape(inp.condition)
   /\ out # Bool(FALSE))
    => out = Throw("TypeError")

----------------------------------------------------------------------------
(* C21 *)

\* C21 (as claimed): match.object(condition) is a partial match at every
\* nesting level: the tested object matches when every leaf literal of the
\* condition equals the corresponding field; extra fields are ignored at
\* the top level and inside nested objects alike.
C21_ObjectPartialAtEveryLevel ==
  op = "object" => out = Bool(PartialEq(inp.condition, inp.args[1]))

\* the nested object has the fields of the nested condition and no other
SameObject(nested, value) ==
  /\ isPlainObject(value)
  /\ Keys(value) = Keys(nested)
  /\ \A key \in Keys(nested) : value.o[key] = nested.o[key]

\* C21 (amended): match.object(condition) is a partial match at the top
\* level only: the tested object matches when every key of the condition
\* is a field of it with an equal value, extra fields being ignored; a
\* nested object of the condition must be equalled exactly, so an extra
\* field inside a nested object makes the match fail.
C21_ObjectPartialAtTopLevelOnly ==
  op = "object" =>
    out = Bool(\A key \in Keys(inp.condition) :
                 LET c == inp.condition.o[key]
                     v == Get(inp.args[1], key)
                 IN IF isPlainObject(c) THEN SameObject(c, v)
                    ELSE v.k = "atom" /\ v.a = c.a)

\* the tested object has the nested literal of the condition and one more
\* field beside it, at the top level it has an extra field too: no match
C21_Witness ==
  /\ op = "object"
  /\ out = Bool(FALSE)
  /\ Keys(inp.condition) = {"a"}
  /\ Keys(inp.condition.o["a"]) = {"a"}
  /\ Keys(inp.args[1]) = {"a", "b"}
  /\ Keys(inp.args[1].o["a"]) = {"a", "b"}
  /\ inp.args[1].o["a"].o["a"] = inp.condition.o["a"].o["a"]

----------------------------------------------------------------------------
(* C22 *)

----------------------------------------------------------------------------
(* C23 *)

\* C23: the object returned by combineReducers(mapping)(state, action) has
\* exactly the keys of mapping: a key that only the state has is dropped, a
\* key of mapping that the state lacks is present.
C23_OutputHasKeysOfMapping ==
  op = "combineReducers" =>
    /\ isPlainObject(out)
    /\ Keys(out) = Keys(inp.reducers)

\* the state has a key outside the mapping, which the output dropped, and
\* lacks a key of the mapping, which the output has
C23_Witness ==
  /\ op = "combineReducers"
  /\ isPlainObject(inp.state)
  /\ Keys(inp.state) \ Keys(inp.reducers) # {}
  /\ Keys(inp.reducers) \ Keys(inp.state) # {}
  /\ Keys(out) \cap Keys(inp.state) # {}
  /\ Keys(out) = Keys(inp.reducers)

----------------------------------------------------------------------------
(* C26 *)

\* C26: the registry of a reducer() instance is changed only by add(): a
\* call of the reducer, whether it returns the state, returns a leaf's
\* result or throws the ambiguous-dispatch error, leaves the registry as
\* it was, and the same call made again behaves the same.
C26_OnlyAddChangesRegistry ==
  /\ [][(reducers' # reducers => op' = "add")
         /\ (op' = "reducer" => reducers' = reducers)]_vars
  /\ [](op = "reducer" =>
          reducerCall(reducers, defaultState, inp.state, inp.action,
                      inp.args)
            = [reducers |-> reducers, ret |-> Ret(out, log)])

\* a call threw the ambiguous-dispatch error on a registry with two
\* matching leaves, which are both still registered after it
C26_Witness ==
  /\ op = "reducer"
  /\ out = AmbiguousDispatch
  /\ Cardinality(MatchingLeaves(reducers, inp.action)) >= 2

----------------------------------------------------------------------------
(* C29 *)

\* the value has no result of a reducer in it
NoResultIn(value) ==
  /\ value.k # "res"
  /\ isPlainObject(value) => \A key \in Keys(value) : value.o[key].k # "res"

\* C29: in combineReducers(mapping)(state, action) no argument of a slice
\* reducer contains a value returned by another key's reducer, the value
\* returned is the same in whichever order the keys of mapping are
\* processed, and the state object passed in is not modified.
C29_SliceReducersSeeInputState ==
  op = "combineReducers" =>
    /\ \A i \in 1..Len(log) :
         \A j \in 1..Len(log[i].args) : NoResultIn(log[i].args[j])
    /\ \A order \in CombineOrders :
         combineReducers(inp.reducers, inp.state, inp.action, order).v = out
    /\ inp.after = inp.state

\* two reducers ran, the second key first, on a state object that has
\* both of their slices
C29_Witness ==
  /\ op = "combineReducers"
  /\ inp.order = <<"B", "A">>
  /\ Len(log) = 2
  /\ {"A", "B"} \subseteq Keys(inp.state)
  /\ inp.after = inp.state

----------------------------------------------------------------------------
(* C25 *)

\* the number of calls of fn made during the operation
Calls(fn) == Cardinality({j \in 1..Len(log) : log[j].fn = fn.id})

\* C25: when a first(...) Matcher is called and M_i is the first Matcher
\* whose condition is true, first invokes the transform of M_i and not M_i
\* itself: during the call the condition of M_i is evaluated once, not a
\* second time.
C25_FirstInvokesTransformDirectly ==
  op = "first" =>
    \A i \in 1..Len(inp.reducers) : Calls(inp.reducers[i].condition) <= 1

----------------------------------------------------------------------------
(* C27 *)

\* no Matcher of ms has a condition that is true of args
NoneHolds(ms, args) ==
  \A i \in 1..Len(ms) : ~Holds(ms[i].condition, args)

\* C27: a Matcher made by first(...) or always(...) has the constantly
\* true condition, so when an outer first reaches it no later Matcher of
\* the outer first is evaluated or invoked; when none of the Matchers of an
\* inner first matches, the outer first returns its first argument.
C27_NestedFirstNeverFallsThrough ==
  op = "nested first" =>
    /\ inp.inner.condition = RT
    /\ ~Called(inp.later.condition)
    /\ ~Called(inp.later.reducer)
    /\ (/\ inp.inner.reducer.k = "firstReducer"
        /\ NoneHolds(inp.earlier, inp.args)
        /\ NoneHolds(inp.inner.reducer.reducers, inp.args))
         => out = inp.args[1]

\* no Matcher of the inner first matched and the later Matcher, whose
\* condition is true of the arguments, was not reached: the state is
\* returned
C27_Witness ==
  /\ op = "nested first"
  /\ inp.inner.reducer.k = "firstReducer"
  /\ Len(inp.inner.reducer.reducers) = 2
  /\ Len(inp.earlier) = 1
  /\ NoneHolds(inp.earlier, inp.args)
  /\ NoneHolds(inp.inner.reducer.reducers, inp.args)
  /\ Called(inp.inner.reducer.reducers[2].condition)
  /\ Holds(inp.later.condition, inp.args)
  /\ ~Called(inp.later.condition)
  /\ out = inp.args[1]

----------------------------------------------------------------------------
(* C28 *)

\* the paths of the leaves of tree
LeavesOf(tree) == {path \in LeafPaths : IsFunction(At(tree, path))}

\* path1 is path2 or a prefix of it
IsPrefix(path1, path2) ==
  Len(path1) <= Len(path2) /\ SubSeq(path2, 1, Len(path1)) = path1

\* no leaf path of one tree is equal to or a prefix of a leaf path of the
\* other
NonOverlapping(treeA, treeB) ==
  \A pathA \in LeavesOf(treeA), pathB \in LeavesOf(treeB) :
    ~IsPrefix(pathA, pathB) /\ ~IsPrefix(pathB, pathA)

\* both registries dispatch every action to the same leaf, to none, or to
\* the ambiguous-dispatch error
SameDispatch(registered1, registered2) ==
  \A action \in Actions :
    findReducer(registered1, action) = findReducer(registered2, action)

\* C28: for partial trees A and B in which no leaf path of one is equal to
\* or a prefix of a leaf path of the other, add(A) then add(B) dispatches
\* every action as add(B) then add(A) does; add(A) then add(A) dispatches
\* every action as a single add(A) does.
C28_AddCommutesAndIsIdempotent ==
  op = "add" =>
    /\ \A tree \in AddTrees :
         NonOverlapping(tree, inp.tree) =>
           SameDispatch(add(reducers, tree),
                        add(add(inp.before, tree), inp.tree))
    /\ SameDispatch(add(reducers, inp.tree), reducers)

\* a tree was added under a value where another tree, with a different
\* leaf path, can be added too, and the leaf just added is dispatched to
C28_Witness ==
  /\ op = "add"
  /\ \E tree \in AddTrees, path \in LeavesOf(inp.tree) :
       /\ LeavesOf(tree) # {}
       /\ NonOverlapping(tree, inp.tree)
       /\ \E other \in LeavesOf(tree) :
            Len(other) = 4 /\ Len(path) = 4
              /\ SubSeq(other, 1, 2) = SubSeq(path, 1, 2)
       /\ findReducer(add(reducers, tree), ActionOf(path))
            = At(inp.tree, path)

----------------------------------------------------------------------------
(* C24 *)

----------------------------------------------------------------------------
(* C30 *)

\* the reducer instance returns the same, for every state and action, on
\* both heaps
SameReturns(objects1, objects2, instance) ==
  \A state \in {Undefined, Atom("s0")}, action \in Actions :
    innerReducer(Deref(objects1, instance), defaultState, state, action, <<>>)
      = innerReducer(Deref(objects2, instance), defaultState, state, action,
                     <<>>)

\* the registries of R1 and R2 have no object in common, and none in
\* common with a tree of the caller
RegistriesShareNoObject ==
  /\ Reach(heap.objects, 1) \cap Reach(heap.objects, 2) = {}
  /\ \A t \in 1..Len(heap.trees), instance \in Instances :
       Reach(heap.objects, heap.trees[t])
         \cap Reach(heap.objects, instance) = {}

\* the registry after add(tree) reads as the merge of the trees read from
\* the registry and from the caller's tree before it
HeapAddIsMerge ==
  op = "heap add" =>
    Deref(heap.objects, inp.instance)
      = merge(Deref(inp.before, inp.instance), Deref(inp.before, inp.tree))

\* C30: each reducer() instance has its own registry: an add on one of R1
\* and R2 does not change what the other returns for any state and
\* action; add(tree) leaves every object of the caller's tree as it was;
\* and when the caller changes an object of a tree later, added or not,
\* neither R1 nor R2 returns anything else than before.
C30_RegistriesAreIndependent ==
  /\ op = "heap add" =>
       /\ \A other \in Instances \ {inp.instance} :
            SameReturns(inp.before, heap.objects, other)
       /\ \A a \in Reach(inp.before, inp.tree) :
            heap.objects[a] = inp.before[a]
  /\ op = "mutate" =>
       \A instance \in Instances :
         SameReturns(inp.before, heap.objects, instance)

\* the caller replaced the leaf of a tree that had been added to one
\* reducer only: that reducer still dispatches to the leaf that was added,
\* the other has no leaf for the action
C30_Witness ==
  /\ op = "mutate"
  /\ At(Deref(inp.before, inp.tree), <<"p", "x">>) = Leaf("f1")
  /\ At(Deref(heap.objects, inp.tree), <<"p", "x">>) = Leaf("g")
  /\ \E instance \in Instances :
       /\ findReducer(Deref(heap.objects, instance), ActionOf(<<"p", "x">>))
            = Leaf("f1")
       /\ \A other \in Instances \ {instance} :
            findReducer(Deref(heap.objects, other), ActionOf(<<"p", "x">>))
              = Undefined

====
